---- MODULE Spec2Model ----
(***************************************************************************)
(* The analysis lifecycle of soos-dast-python (src/main.py).               *)
(*                                                                         *)
(* Spec is the program: one run of SOOSDASTAnalysis.run_analysis, from the *)
(* configuration to the exit of the process.                               *)
(*                                                                         *)
(* SpecCalls is one call, with every parameter bound, of one of the        *)
(* operations run_analysis calls in its try block: the start analysis      *)
(* POST, the set status PATCH, publish_results_to_soos (the upload results *)
(* PUT) and SOOSSARIFReport.exec.                                          *)
(*                                                                         *)
(* A state is a program position, the locals of the call in progress and   *)
(* the exit code.  Every HTTP request is one step whose response is an     *)
(* input.  The invocations of the three remote calls, the requests of the  *)
(* invocation in progress and the requests of the SARIF publication are    *)
(* kept as history.                                                        *)
(***************************************************************************)
EXTENDS Integers, Sequences, FiniteSets, TLC

VARIABLES
    cfg,             \* the configuration source handed to parse_configuration
    env,             \* the environment of the process: variables, the target
    self,            \* fields of the SOOSDASTAnalysis object
    pc,              \* position of the process
    site,            \* call site of the outermost set-status call in progress
    status,          \* parameter `status` of the set-status frame in progress
    status_message,  \* parameter `status_message` of that frame
    depth,           \* number of set-status frames below the one in progress
    it,              \* iterations of the current retry loop already started
    attempt,         \* the local variable `attempt` of the call in progress
    error_response,  \* the local `error_response`: body of the last error
    error_message,   \* the local `error_message` of the upload function
    session,         \* soos_dast_start_response (DASTStartAnalysisResponse)
    command,         \* the scan function that built the scanner command
    scanner,         \* what the scanner command leaves at the report path
    sarif_json_response, \* the local of SOOSSARIFReport.exec
    calls,           \* history: every remote-call invocation and its outcome
    nsent,           \* history: requests sent by the invocation in progress
    nfail,           \* history: non-success responses it has received
    sarif_sent,      \* history: the requests of SOOSSARIFReport.exec
    all_ok,          \* history: every request so far got a success response
    exitCode,        \* exit code of the process once it has terminated
    exitMsg          \* the message the process terminated with

vars == <<cfg, env, self, pc, site, status, status_message, depth, it, attempt,
          error_response, error_message, session, command, scanner, sarif_json_response,
          calls, nsent, nfail, sarif_sent, all_ok, exitCode, exitMsg>>

\* Groups of variables that steps leave alone together.
frame == <<site, status, status_message, depth>>
loop == <<it, attempt, error_response, error_message>>
count == <<nsent, nfail>>
term == <<exitCode, exitMsg>>

-----------------------------------------------------------------------------
(* Bounds and constants *)

\* Frames of __make_soos_scan_status_request__ the interpreter allows on top
\* of the outermost one before the next call raises RecursionError.
MaxDepth == 2

\* helpers.constants.MAX_RETRY_COUNT
MAX_RETRY_COUNT == 3

\* SOOSSARIFReport.API_RETRY_COUNT
API_RETRY_COUNT == 3

None == "None"
Absent == "Absent"

\* message literals of the source
StartErrorMsg == "An error has occurred Starting the Analysis"
ScanErrorMsg == "An Unexpected error has occurred running the scan"
UploadErrorMsg == "An Unexpected error has occurred uploading ZAP Report Results"
NotAvailableMsg == "The URL is not available"
InvalidModeMsg == "The scan mode is invalid."
RequiredMsg == "projectName and scanMode are required"
ExceptionMsg == "exception"
TypeErrorMsg == "missing 1 required positional argument: 'status_message'"

\* Bodies of an error response: with a `message` field, or without one.
ServerMsg == "server down"
ErrorBodies == {ServerMsg, Absent}

\* Outcomes of one HTTP request: a success status, a non-success status,
\* or the request (or the decoding of its response) raising.
OK == "ok"
FAIL == "fail"
RAISE == "raise"
Outcomes == {OK, FAIL, RAISE}

\* The identifiers a start-analysis response carries, and their absence
\* before any response.
Sessions == {[project_id |-> "p1", branch_hash |-> "b1", analysis_id |-> "a1"]}
NoSession == [project_id |-> None, branch_hash |-> None, analysis_id |-> None]

-----------------------------------------------------------------------------
(* Helpers of helpers.utils *)

\* has_value / valid_required: a value is present when it is neither None
\* nor empty; valid_required raises otherwise.
has_value(v) == v # None /\ v # ""

\* sys.exit(code): SystemExit is not an Exception, so no except clause of
\* the program catches it and the process terminates with that code.
sys_exit(code, msg) ==
    /\ pc' = "exited"
    /\ exitCode' = code
    /\ exitMsg' = msg

\* exit_app(e): logs e and terminates the process with exit code 1.
exit_app(msg) == sys_exit(1, msg)

-----------------------------------------------------------------------------
(* History bookkeeping *)

\* An invocation of a remote call: its operation, the status and message it
\* carries (set-status only), its recursion depth, the session identifiers
\* it addresses, whether it has sent a request, and how it ended.
NewCall(op, st, msg, d, sess) ==
    [op |-> op, status |-> st, msg |-> msg, depth |-> d, sess |-> sess,
     requested |-> FALSE, result |-> "pending"]

\* calls with the invocation in progress ended with result r
Closed(r) == [calls EXCEPT ![Len(calls)].result = r]

\* calls after the invocation in progress sent a request, with result r
\* ("pending" while its loop goes on)
Answered(r) == [calls EXCEPT ![Len(calls)].requested = TRUE,
                             ![Len(calls)].result = r]

\* The request counters after one more request, answered with resp.
Counted(resp) ==
    /\ nsent' = nsent + 1
    /\ nfail' = IF resp = FAIL THEN nfail + 1 ELSE nfail
    /\ all_ok' = (all_ok /\ resp = OK)

SarifRequest(op, resp) == [op |-> op, resp |-> resp]

\* Entering __make_soos_scan_status_request__ from call site s (lines
\* 409-430), cs being the invocations so far.
CallStatus(s, st, msg, cs) ==
    /\ pc' = "status_loop"
    /\ site' = s
    /\ status' = st
    /\ status_message' = msg
    /\ depth' = 0
    /\ it' = 0
    /\ attempt' = 0
    /\ error_response' = None
    /\ nsent' = 0
    /\ nfail' = 0
    /\ calls' = Append(cs, NewCall("set_status", st, msg, 0, session))

-----------------------------------------------------------------------------
(* Initial state: a fresh SOOSDASTAnalysis and a configuration source *)

ScanModes == {Absent, "", "baseline", "fullscan", "apiscan", "activescan", "bogus"}

\* The configuration sources a run is started with: the namespace of the
\* command line, in which every key is present, or the `config` block of a
\* YAML file, in which a key may be absent.
Configs == [targetURL : {"", "http://target"},
            clientId : {Absent, None, "client"},
            apiKey : {Absent, None, "key"},
            projectName : {Absent, None, "proj"},
            scanMode : ScanModes,
            apiScanFormat : {None, "openapi"},
            sarif : BOOLEAN]

\* The environment: the variables SOOS_CLIENT_ID and SOOS_API_KEY (None when
\* unset), and whether the target answers the availability check.
Environments == [SOOS_CLIENT_ID : {None, "env-client"},
                 SOOS_API_KEY : {None, "env-key"},
                 target_available : BOOLEAN]

\* What the scanner subprocess leaves at the report path: the expected
\* report (a JSON document with an @version field), a file that cannot be
\* read or parsed as such, or nothing.
ScanResults == {"report", "malformed", "none"}

\* The value parse_configuration stores for the clientId or apiKey key
\* (lines 105-124): a key present without a value takes the environment
\* variable, an absent key leaves the None of the constructor.
credential(value, variable) ==
    CASE value = Absent -> None
      [] value = None -> variable
      [] OTHER -> value

\* The checks parse_configuration makes on its source: the target URL, the
\* clientId, apiKey, projectName and scanMode keys that are present
\* (valid_required).
configuration_valid(c) ==
    /\ has_value(c.targetURL)
    /\ c.clientId # Absent => has_value(credential(c.clientId, env.SOOS_CLIENT_ID))
    /\ c.apiKey # Absent => has_value(credential(c.apiKey, env.SOOS_API_KEY))
    /\ c.projectName # Absent => has_value(c.projectName)
    /\ c.scanMode # Absent => has_value(c.scanMode)

\* The fields parse_configuration stores; an absent key leaves the None of
\* the constructor.
parse_configuration(c) ==
    [target_url |-> c.targetURL,
     client_id |-> credential(c.clientId, env.SOOS_CLIENT_ID),
     api_key |-> credential(c.apiKey, env.SOOS_API_KEY),
     project_name |-> IF c.projectName = Absent THEN None ELSE c.projectName,
     scan_mode |-> IF c.scanMode = Absent THEN None ELSE c.scanMode,
     api_scan_format |-> c.apiScanFormat,
     generate_sarif_report |-> c.sarif]

\* The history and the locals before anything ran.
Fresh ==
    /\ site = None
    /\ status = None
    /\ status_message = None
    /\ depth = 0
    /\ it = 0
    /\ attempt = 0
    /\ error_response = None
    /\ error_message = None
    /\ command = None
    /\ scanner \in ScanResults
    /\ sarif_json_response = None
    /\ calls = <<>>
    /\ nsent = 0
    /\ nfail = 0
    /\ sarif_sent = <<>>
    /\ all_ok = TRUE
    /\ exitCode = None
    /\ exitMsg = None

Init ==
    /\ cfg \in Configs
    /\ env \in Environments
    /\ self = [target_url |-> None, client_id |-> None, api_key |-> None,
               project_name |-> None, scan_mode |-> None,
               api_scan_format |-> None, generate_sarif_report |-> FALSE]
    /\ pc = "parse_args"
    /\ session = NoSession
    /\ Fresh

-----------------------------------------------------------------------------
(* run_analysis up to the start-analysis call (lines 739-762) *)

\* parse_args / parse_configuration: the target URL is validated first; a
\* projectName or scanMode key that is present is validated and stored, an
\* absent key leaves the field None.  valid_required raising reaches the
\* except clause of run_analysis, which calls exit_app.
ParseArgs ==
    /\ pc = "parse_args"
    /\ IF ~configuration_valid(cfg)
       THEN /\ exit_app(ExceptionMsg)
            /\ UNCHANGED self
       ELSE /\ self' = parse_configuration(cfg)
            /\ pc' = "check_site"
            /\ UNCHANGED term
    /\ UNCHANGED <<cfg, env, all_ok, frame, loop, session, command, scanner,
                   sarif_json_response, calls, count, sarif_sent>>

\* A faulty variant: the retry loop begins without the required-field check.
CallStart_unchecked ==
    /\ pc' = "start_loop"
    /\ it' = 0
    /\ attempt' = 0
    /\ error_response' = None
    /\ nsent' = 0
    /\ nfail' = 0
    /\ calls' = Append(calls, NewCall("start_analysis", None, None, 0, NoSession))
    /\ UNCHANGED term

\* A faulty variant: the required-field check ends the process with code 0.
CallStart_exits_zero ==
    IF ~has_value(self.project_name) \/ ~has_value(self.scan_mode)
    THEN /\ sys_exit(0, RequiredMsg)
         /\ UNCHANGED <<it, attempt, error_response, calls, count>>
    ELSE CallStart_unchecked

\* Entering __make_soos_start_analysis_request__ (lines 340-380): the
\* required-field check exits with code 1, otherwise the retry loop begins.
CallStart ==
    IF ~has_value(self.project_name) \/ ~has_value(self.scan_mode)
    THEN /\ sys_exit(1, RequiredMsg)
         /\ UNCHANGED <<it, attempt, error_response, calls, count>>
    ELSE /\ pc' = "start_loop"
         /\ it' = 0
         /\ attempt' = 0
         /\ error_response' = None
         /\ nsent' = 0
         /\ nfail' = 0
         /\ calls' = Append(calls, NewCall("start_analysis", None, None, 0, NoSession))
         /\ UNCHANGED term

\* A faulty variant: the result of the availability check is not looked at.
CheckSite_ignored ==
    /\ pc = "check_site"
    /\ CallStart
    /\ UNCHANGED <<cfg, env, all_ok, self, frame, error_message, session, command, scanner,
                   sarif_json_response, sarif_sent>>

\* check_site_is_available(self.target_url) (lines 755-759); on success
\* the start-analysis function is called (line 762).
CheckSite ==
    /\ pc = "check_site"
    /\ LET check == env.target_available IN
         IF ~check
         THEN /\ exit_app(NotAvailableMsg)
              /\ UNCHANGED <<it, attempt, error_response, calls, count>>
         ELSE CallStart
    /\ UNCHANGED <<cfg, env, all_ok, self, frame, error_message, session, command, scanner,
                   sarif_json_response, sarif_sent>>

-----------------------------------------------------------------------------
(* __make_soos_start_analysis_request__ (lines 340-407) *)

\* for attempt in range(0, MAX_RETRY_COUNT): another iteration is started
\* while fewer than MAX_RETRY_COUNT have been.
start_range(i) == i < MAX_RETRY_COUNT

\* Lines 399-405: the message the function hands to exit_app once the loop
\* is over.  A body without `message` raises KeyError, and the except
\* clause keeps the initial text.
start_message(att, err) ==
    IF att > MAX_RETRY_COUNT /\ err # None
    THEN IF err = Absent THEN StartErrorMsg ELSE err
    ELSE StartErrorMsg

\* A faulty variant: the loop goes on after a success response.
StartRequest_goes_on ==
    /\ pc = "start_loop"
    /\ start_range(it)
    /\ \E resp \in Outcomes, body \in ErrorBodies, s \in Sessions :
         /\ Counted(resp)
         /\ attempt' = it
         /\ it' = it + 1
         /\ CASE resp = OK ->
                   /\ session' = s
                   /\ calls' = Answered("success")
                   /\ error_response' = None
                   /\ UNCHANGED <<pc, term>>
              [] resp = FAIL ->
                   /\ error_response' = body
                   /\ calls' = Answered("pending")
                   /\ UNCHANGED <<pc, session, term>>
              [] resp = RAISE ->
                   /\ exit_app(StartErrorMsg)
                   /\ calls' = Answered("raised")
                   /\ UNCHANGED <<error_response, session>>
    /\ UNCHANGED <<cfg, env, self, frame, error_message, command, scanner,
                   sarif_json_response, sarif_sent>>

\* One iteration of the loop: the POST and the branch on its response.
StartRequest ==
    /\ pc = "start_loop"
    /\ start_range(it)
    /\ \E resp \in Outcomes, body \in ErrorBodies, s \in Sessions :
         /\ Counted(resp)
         /\ attempt' = it
         /\ it' = it + 1
         /\ CASE resp = OK ->
                   /\ session' = s
                   /\ pc' = "start_returned"
                   /\ calls' = Answered("success")
                   /\ error_response' = None
                   /\ UNCHANGED term
              [] resp = FAIL ->
                   /\ error_response' = body
                   /\ calls' = Answered("pending")
                   /\ UNCHANGED <<pc, session, term>>
              [] resp = RAISE ->
                   /\ exit_app(StartErrorMsg)
                   /\ calls' = Answered("raised")
                   /\ UNCHANGED <<error_response, session>>
    /\ UNCHANGED <<cfg, env, self, frame, error_message, command, scanner,
                   sarif_json_response, sarif_sent>>

\* A faulty variant: the function returns to its caller instead of exiting.
StartExhausted_returns ==
    /\ pc = "start_loop"
    /\ ~start_range(it)
    /\ pc' = "start_returned"
    /\ calls' = Closed("exhausted")
    /\ UNCHANGED <<cfg, env, all_ok, self, frame, loop, session, command, scanner,
                   sarif_json_response, count, sarif_sent, term>>

\* The loop is over without a success response: lines 399-407.
StartExhausted ==
    /\ pc = "start_loop"
    /\ ~start_range(it)
    /\ exit_app(start_message(attempt, error_response))
    /\ calls' = Closed("exhausted")
    /\ UNCHANGED <<cfg, env, all_ok, self, frame, loop, session, command, scanner,
                   sarif_json_response, count, sarif_sent>>

-----------------------------------------------------------------------------
(* run_analysis, lines 764-777: dispatch on the scan mode, build the command *)

\* A faulty variant: a mode without an entry is given the baseline function.
scan_mode_map_defaulting(mode) ==
    CASE mode = "fullscan" -> "full_scan"
      [] mode = "apiscan" -> "api_scan"
      [] OTHER -> "baseline_scan"

\* self.scan_mode_map (lines 93-97): the scan function of a mode, or None.
scan_mode_map(mode) ==
    CASE mode = "baseline" -> "baseline_scan"
      [] mode = "fullscan" -> "full_scan"
      [] mode = "apiscan" -> "api_scan"
      [] OTHER -> None

\* The parameters of __make_soos_scan_status_request__ besides self (lines
\* 409-411): none of them has a default value.
StatusParameters ==
    {"project_id", "branch_hash", "analysis_id", "status", "status_message"}

\* The keyword arguments of the Running call of run_analysis (lines
\* 773-777).
RunningArguments == {"project_id", "branch_hash", "analysis_id", "status"}

\* A call binds when it gives every parameter without a default; otherwise
\* the interpreter raises TypeError before the body of the function runs.
binds(parameters, arguments) == parameters \subseteq arguments

\* A faulty variant: api_scan builds its command whatever the format is.
api_scan_unchecked(format) == FALSE

\* api_scan (lines 309-316) begins with valid_required("api_scan_format",
\* self.api_scan_format), which raises when the format has no value; the
\* command is assembled only after it.
api_scan_raises(format) == ~has_value(format)

\* scan_function is looked up; None is fatal.  api_scan starts with
\* valid_required("api_scan_format", ...), whose exception reaches the except
\* clause of run_analysis.  Otherwise the command is built and the status
\* Running is to be reported: that call gives no status_message, the
\* TypeError reaches the except clause of run_analysis (lines 813-814), and
\* the process exits before any set-status request.
Dispatch ==
    /\ pc = "start_returned"
    /\ LET scan_function == scan_mode_map(self.scan_mode) IN
         IF scan_function = None
         THEN /\ exit_app(InvalidModeMsg)
              /\ UNCHANGED <<frame, loop, command, calls, count>>
         ELSE IF scan_function = "api_scan" /\ api_scan_raises(self.api_scan_format)
         THEN /\ exit_app(ExceptionMsg)
              /\ UNCHANGED <<frame, loop, command, calls, count>>
         ELSE IF ~binds(StatusParameters, RunningArguments)
         THEN /\ command' = scan_function
              /\ exit_app(TypeErrorMsg)
              /\ UNCHANGED <<frame, loop, calls, count>>
         ELSE /\ command' = scan_function
              /\ CallStatus("running", "Running", None, calls)
              /\ UNCHANGED term
    /\ UNCHANGED <<cfg, env, all_ok, self, error_message, session, scanner,
                   sarif_json_response, sarif_sent>>

-----------------------------------------------------------------------------
(* __make_soos_scan_status_request__ (lines 409-464) *)

\* A faulty variant: the loop runs one iteration too many.
status_range_inclusive(i) == i <= MAX_RETRY_COUNT

\* for attempt in range(0, MAX_RETRY_COUNT)
status_range(i) == i < MAX_RETRY_COUNT

\* Line 450: whether the message of the last error body is read.
status_reads_body(att, err) == att > MAX_RETRY_COUNT /\ err # None

\* The except clause (lines 454-462): `message` still holds its initial
\* text, and the function calls itself with status Error and that text.
\* The call raises RecursionError once MaxDepth frames are nested; the
\* frames below are all running their except clause, so the exception
\* leaves every frame and reaches the call site of the outermost one.
\* cs are the invocations so far, the one in progress ended.
StatusExcept(cs) ==
    IF depth < MaxDepth
    THEN /\ depth' = depth + 1
         /\ status' = "Error"
         /\ status_message' = StartErrorMsg
         /\ it' = 0
         /\ attempt' = 0
         /\ error_response' = None
         /\ nsent' = 0
         /\ nfail' = 0
         /\ calls' = Append(cs, NewCall("set_status", "Error", StartErrorMsg,
                                        depth + 1, session))
         /\ UNCHANGED <<pc, site, term>>
    ELSE /\ pc' = "status_raised"
         /\ depth' = 0
         /\ error_response' = None
         /\ nsent' = 0
         /\ nfail' = 0
         /\ calls' = cs
         /\ UNCHANGED <<site, status, status_message, it, attempt, term>>

\* One iteration of the loop: the PATCH and the branch on its response.
\* A success response returns True: to the call site when this is the
\* outermost frame, otherwise into the except clause of the frame below,
\* which falls through to exit_app(message) at line 464.
StatusRequest ==
    /\ pc = "status_loop"
    /\ status_range(it)
    /\ \E resp \in Outcomes, body \in ErrorBodies :
         CASE resp = OK ->
                /\ Counted(resp)
                /\ calls' = Answered("success")
                /\ attempt' = it
                /\ it' = it + 1
                /\ error_response' = None
                /\ IF depth = 0
                   THEN /\ pc' = "status_returned"
                        /\ UNCHANGED term
                   ELSE exit_app(StartErrorMsg)
                /\ UNCHANGED frame
           [] resp = FAIL ->
                /\ Counted(resp)
                /\ calls' = Answered("pending")
                /\ attempt' = it
                /\ it' = it + 1
                /\ error_response' = body
                /\ UNCHANGED <<pc, frame, term>>
           [] resp = RAISE ->
                /\ StatusExcept(Answered("raised"))
                /\ all_ok' = FALSE
    /\ UNCHANGED <<cfg, env, self, error_message, session, command, scanner,
                   sarif_json_response, sarif_sent>>

\* The loop is over without a success response (lines 450-464): the
\* condition of line 450 decides whether the body is read (a body without
\* `message` raises into the except clause); then exit_app(message).
StatusExhausted ==
    /\ pc = "status_loop"
    /\ ~status_range(it)
    /\ IF status_reads_body(attempt, error_response) /\ error_response = Absent
       THEN StatusExcept(Closed("exhausted"))
       ELSE /\ exit_app(IF status_reads_body(attempt, error_response)
                        THEN error_response ELSE StartErrorMsg)
            /\ calls' = Closed("exhausted")
            /\ UNCHANGED <<frame, it, attempt, error_response, count>>
    /\ UNCHANGED <<cfg, env, all_ok, self, error_message, session, command, scanner,
                   sarif_json_response, sarif_sent>>

-----------------------------------------------------------------------------
(* The call sites of set-status: what follows its return, and its raising *)

\* A faulty variant: the exit of line 519 is caught by the except clause of
\* publish_results_to_soos, which reports Error itself.
UploadErrorReported_caught ==
    /\ pc = "status_returned"
    /\ site = "upload_fail"
    /\ CallStatus("publish_except", "Error", UploadErrorMsg, calls)
    /\ UNCHANGED <<cfg, env, all_ok, self, error_message, session, command, scanner,
                   sarif_json_response, sarif_sent, term>>

\* Lines 513-519: after the Error call of a failed upload returns,
\* exit_app(error_message).
UploadErrorReported ==
    /\ pc = "status_returned"
    /\ site = "upload_fail"
    /\ exit_app(error_message)
    /\ UNCHANGED <<cfg, env, all_ok, self, frame, loop, session, command, scanner,
                   sarif_json_response, calls, count, sarif_sent>>

\* Lines 536-543: the except clause of publish_results_to_soos, after its
\* Error call returns: exit_app(e).
PublishErrorReported ==
    /\ pc = "status_returned"
    /\ site = "publish_except"
    /\ exit_app(ExceptionMsg)
    /\ UNCHANGED <<cfg, env, all_ok, self, frame, loop, session, command, scanner,
                   sarif_json_response, calls, count, sarif_sent>>

\* An exception leaving the set-status call made by
\* __make_upload_dast_results_request__ (line 513, outside its try) reaches
\* the except clause of publish_results_to_soos (line 536), which reports
\* Error itself.
PublishExcept ==
    /\ pc = "status_raised"
    /\ site = "upload_fail"
    /\ CallStatus("publish_except", "Error", UploadErrorMsg, calls)
    /\ UNCHANGED <<cfg, env, all_ok, self, error_message, session, command, scanner, sarif_json_response,
                   sarif_sent, term>>

\* An exception leaving any other set-status call reaches the caller; in
\* the try block of run_analysis that is its except clause (lines 813-814):
\* exit_app(e).
RunExcept ==
    /\ pc = "status_raised"
    /\ site # "upload_fail"
    /\ exit_app(ExceptionMsg)
    /\ UNCHANGED <<cfg, env, all_ok, self, frame, loop, session, command, scanner,
                   sarif_json_response, calls, count, sarif_sent>>

-----------------------------------------------------------------------------
(* __make_upload_dast_results_request__ (lines 466-519) *)

\* while attempt <= MAX_RETRY_COUNT
upload_while(att) == att <= MAX_RETRY_COUNT

\* Lines 506-511: error_message once the loop is over.  A body without
\* `message` raises KeyError and the except clause leaves it None.
upload_error_message(att, err) ==
    IF att > MAX_RETRY_COUNT /\ err # None
    THEN IF err = Absent THEN None ELSE err
    ELSE None

\* Lines 472-482: the report is read and parsed before any request; an
\* exception there is caught at line 510 with error_message still None.
UploadRead ==
    /\ pc = "upload_read"
    /\ error_message' = None
    /\ IF scanner # "report"
       THEN /\ pc' = "upload_failed"
            /\ calls' = Closed("raised")
            /\ UNCHANGED attempt
       ELSE /\ pc' = "upload_loop"
            /\ attempt' = 1
            /\ UNCHANGED calls
    /\ UNCHANGED <<cfg, env, all_ok, self, frame, it, error_response, session, command,
                   scanner, sarif_json_response, count, sarif_sent, term>>

\* A faulty variant: a success response counts only if its body has a
\* message.
upload_ok_needs_body(resp, body) == resp = OK /\ body # Absent

\* Line 495, `if api_response.ok`: the status of the response decides, its
\* body is not read.
upload_ok(resp, body) == resp = OK

\* One iteration of the loop: the PUT and the branch on its response.  On
\* success the function returns True, and publish_results_to_soos logs and
\* returns (lines 526-534).
UploadRequest ==
    /\ pc = "upload_loop"
    /\ upload_while(attempt)
    /\ \E resp \in Outcomes, body \in ErrorBodies :
         /\ Counted(resp)
         /\ CASE resp = RAISE ->
                   /\ calls' = Answered("raised")
                   /\ pc' = "upload_failed"
                   /\ UNCHANGED <<attempt, error_response>>
              [] resp # RAISE /\ upload_ok(resp, body) ->
                   /\ calls' = Answered("success")
                   /\ pc' = "returned"
                   /\ UNCHANGED <<attempt, error_response>>
              [] OTHER ->
                   /\ calls' = Answered("pending")
                   /\ error_response' = body
                   /\ attempt' = attempt + 1
                   /\ UNCHANGED pc
    /\ UNCHANGED <<cfg, env, self, frame, it, error_message, session, command, scanner,
                   sarif_json_response, sarif_sent, term>>

\* The loop is over without a success response: lines 506-511.
UploadExhausted ==
    /\ pc = "upload_loop"
    /\ ~upload_while(attempt)
    /\ error_message' = upload_error_message(attempt, error_response)
    /\ pc' = "upload_failed"
    /\ calls' = Closed("exhausted")
    /\ UNCHANGED <<cfg, env, all_ok, self, frame, it, attempt, error_response, session,
                   command, scanner, sarif_json_response, count, sarif_sent,
                   term>>

\* A faulty variant: the function returns False, and
\* publish_results_to_soos returns as after a successful upload.
UploadFailed_returns ==
    /\ pc = "upload_failed"
    /\ pc' = "returned"
    /\ UNCHANGED <<cfg, env, all_ok, self, frame, loop, session, command, scanner,
                   sarif_json_response, calls, count, sarif_sent, term>>

\* Lines 513-518, reached from the end of the loop and from the except
\* clause alike: report Error with error_message.
UploadFailed ==
    /\ pc = "upload_failed"
    /\ CallStatus("upload_fail", "Error", error_message, calls)
    /\ UNCHANGED <<cfg, env, all_ok, self, error_message, session, command, scanner,
                   sarif_json_response, sarif_sent, term>>

-----------------------------------------------------------------------------
(* SOOSSARIFReport.exec (lines 848-912) *)

\* exec returns to its caller.
SarifReturn ==
    /\ pc' = "returned"
    /\ UNCHANGED <<frame, it, attempt, error_response, count, calls, term>>

\* The except clause of exec (lines 911-912) logs the exception, and exec
\* returns.
SarifExcept == SarifReturn

\* A faulty variant: the fetch loop runs one iteration too many.
sarif_range_inclusive(i) == i <= API_RETRY_COUNT

\* for attempt in range(0, SOOSSARIFReport.API_RETRY_COUNT)
sarif_range(i) == i < API_RETRY_COUNT

\* SOOSSARIFReport.errors_dict
errors_dict ==
    (400 :> "Github: The sarif report is invalid")
    @@ (403 :> "Github: The repository is archived or if github advanced security is not enabled for this repository")
    @@ (404 :> "Github: Resource not found")
    @@ (413 :> "Github: The sarif report is too large")
    @@ (503 :> "Github: Service Unavailable")

\* The statuses of 400 and more that GitHub answers with here: those of the
\* table, and two that are not in it.
GithubStatuses == DOMAIN errors_dict \cup {422, 500}

\* The decoded body of such a response: JSON null, or an object without a
\* `message` key, with a null message, or with a message.
GithubBodies ==
    {[json |-> "null", message |-> Absent],
     [json |-> "object", message |-> Absent],
     [json |-> "object", message |-> None],
     [json |-> "object", message |-> "Not Found"]}

KeyErrorMsg == "KeyError"

\* handle_github_sarif_error (lines 914-922): the message it logs.  The
\* message of the body comes first, the table entry of the status only
\* without one; subscripting an object without `message`, or the table with
\* a status it lacks, raises KeyError, which the except clause of exec
\* logs.  No table entry is None, so the text of line 920 is never used.
handle_github_sarif_error(code, json_response) ==
    IF json_response.json # "null" /\ json_response.message = Absent
    THEN KeyErrorMsg
    ELSE IF json_response.json # "null" /\ json_response.message # None
    THEN json_response.message
    ELSE IF code \in DOMAIN errors_dict
    THEN errors_dict[code]
    ELSE KeyErrorMsg

\* History: a GitHub request answered with a status of 400 or more, and
\* what exec logged for it.
GithubError(op, code, json_response) ==
    [op |-> op, resp |-> FAIL, status |-> code, body |-> json_response,
     logged |-> handle_github_sarif_error(code, json_response)]

\* raise_max_retry_exception together with the serialisation of line 878:
\* publication goes on only with a rendering that is not an error payload.
sarif_aborts(response) == response # "payload"

\* One iteration of the fetch loop (lines 862-871): the GET, classified by
\* handle_response as a payload (break) or an error payload (next
\* iteration); an exception is caught by the except clause of exec.
SarifFetch ==
    /\ pc = "sarif_fetch"
    /\ sarif_range(it)
    /\ \E resp \in Outcomes :
         /\ sarif_sent' = Append(sarif_sent, SarifRequest("GET_sarif", resp))
         /\ all_ok' = (all_ok /\ resp = OK)
         /\ CASE resp = OK ->
                   /\ sarif_json_response' = "payload"
                   /\ attempt' = it
                   /\ it' = it + 1
                   /\ pc' = "sarif_fetched"
                   /\ UNCHANGED <<frame, error_response, calls, count, term>>
              [] resp = FAIL ->
                   /\ sarif_json_response' = "error"
                   /\ attempt' = it
                   /\ it' = it + 1
                   /\ UNCHANGED <<pc, frame, error_response, calls, count, term>>
              [] resp = RAISE ->
                   /\ SarifExcept
                   /\ UNCHANGED sarif_json_response
    /\ UNCHANGED <<cfg, env, self, error_message, session, command, scanner>>

\* Lines 873-895 after the loop: publication is aborted, or the rendering
\* is compressed and POSTed to the GitHub endpoint.  A status of 400 or
\* more goes to handle_github_sarif_error, which logs, and an exception to
\* the except clause: exec returns in both cases.
SarifPost ==
    /\ \/ pc = "sarif_fetched"
       \/ (pc = "sarif_fetch" /\ ~sarif_range(it))
    /\ IF sarif_aborts(sarif_json_response)
       THEN /\ SarifReturn
            /\ UNCHANGED <<sarif_sent, all_ok>>
       ELSE \E resp \in Outcomes :
              /\ all_ok' = (all_ok /\ resp = OK)
              /\ CASE resp = OK ->
                        /\ sarif_sent' = Append(sarif_sent,
                                                SarifRequest("POST_github", resp))
                        /\ pc' = "sarif_status"
                        /\ UNCHANGED <<frame, it, attempt, error_response,
                                       calls, count, term>>
                   [] resp = FAIL ->
                        /\ \E st \in GithubStatuses, body \in GithubBodies :
                             sarif_sent' = Append(sarif_sent,
                                                  GithubError("POST_github", st, body))
                        /\ SarifReturn
                   [] resp = RAISE ->
                        /\ sarif_sent' = Append(sarif_sent,
                                                SarifRequest("POST_github", resp))
                        /\ SarifExcept
    /\ UNCHANGED <<cfg, env, self, error_message, session, command, scanner,
                   sarif_json_response>>

\* Lines 897-909: the GET of the processing status; a status of 400 or
\* more goes to handle_github_sarif_error; whatever it answers, exec
\* returns.
SarifStatus ==
    /\ pc = "sarif_status"
    /\ \E resp \in Outcomes :
         /\ all_ok' = (all_ok /\ resp = OK)
         /\ IF resp = FAIL
            THEN \E st \in GithubStatuses, body \in GithubBodies :
                   sarif_sent' = Append(sarif_sent,
                                        GithubError("GET_github", st, body))
            ELSE sarif_sent' = Append(sarif_sent, SarifRequest("GET_github", resp))
    /\ SarifReturn
    /\ UNCHANGED <<cfg, env, self, error_message, session, command, scanner,
                   sarif_json_response>>

-----------------------------------------------------------------------------
(* The program *)

Next ==
    \/ ParseArgs
    \/ CheckSite
    \/ StartRequest
    \/ StartExhausted
    \/ Dispatch

Spec == Init /\ [][Next]_vars

-----------------------------------------------------------------------------
(* One call of one operation on a configured object *)

\* The statuses and messages set-status is called with.
Statuses == {"Running", "Error", "Finished"}
StatusMessages == {None, ScanErrorMsg}

\* A configured SOOSDASTAnalysis, the identifiers of a started analysis,
\* and whatever the scanner left at the report path.
InitCalls ==
    /\ env = [SOOS_CLIENT_ID |-> None, SOOS_API_KEY |-> None,
              target_available |-> TRUE]
    /\ cfg \in {c \in Configs : /\ configuration_valid(c)
                                /\ c.clientId = "client"
                                /\ c.apiKey = "key"}
    /\ self = parse_configuration(cfg)
    /\ pc = "call"
    /\ session \in Sessions
    /\ Fresh

\* The call: of __make_soos_start_analysis_request__ (as at line 762), of
\* __make_soos_scan_status_request__ with a status and a message (as at
\* line 785), of publish_results_to_soos (as at line 793), which enters
\* __make_upload_dast_results_request__, or of SOOSSARIFReport.exec (as at
\* line 800).
Call ==
    /\ pc = "call"
    /\ \/ /\ CallStart
          /\ UNCHANGED <<frame, sarif_json_response>>
       \/ /\ \E st \in Statuses, msg \in StatusMessages :
               CallStatus("direct", st, msg, calls)
          /\ UNCHANGED <<sarif_json_response, term>>
       \/ /\ pc' = "upload_read"
          /\ calls' = Append(calls, NewCall("upload_results", None, None, 0,
                                            session))
          /\ error_response' = None
          /\ nsent' = 0
          /\ nfail' = 0
          /\ UNCHANGED <<frame, it, attempt, sarif_json_response, term>>
       \/ /\ pc' = "sarif_fetch"
          /\ it' = 0
          /\ attempt' = 0
          /\ sarif_json_response' = None
          /\ UNCHANGED <<frame, error_response, calls, count, term>>
    /\ UNCHANGED <<cfg, env, all_ok, self, error_message, session, command, scanner,
                   sarif_sent>>

NextCalls ==
    \/ Call
    \/ StartRequest
    \/ StartExhausted
    \/ StatusRequest
    \/ StatusExhausted
    \/ UploadRead
    \/ UploadRequest
    \/ UploadExhausted
    \/ UploadFailed
    \/ UploadErrorReported
    \/ PublishExcept
    \/ PublishErrorReported
    \/ RunExcept
    \/ SarifFetch
    \/ SarifPost
    \/ SarifStatus

SpecCalls == InitCalls /\ [][NextCalls]_vars

-----------------------------------------------------------------------------
(* Reading the history *)

Last(seq) == seq[Len(seq)]

Terminated == pc = "exited"

\* The set-status invocations that sent a request, in order.
StatusSent == SelectSeq(calls, LAMBDA c : c.op = "set_status" /\ c.requested)

RECURSIVE Collapse(_)
\* seq without the repetitions of an element right after itself
Collapse(seq) ==
    IF Len(seq) <= 1 THEN seq
    ELSE IF seq[1] = seq[2] THEN Collapse(Tail(seq))
    ELSE <<seq[1]>> \o Collapse(Tail(seq))

\* The status values of the set-status requests, in the order sent.
StatusValues == Collapse([i \in 1..Len(StatusSent) |-> StatusSent[i].status])

\* A set-status request with status st has been sent.
Reported(st) == \E i \in 1..Len(StatusSent) : StatusSent[i].status = st

HasCall(op, result) ==
    \E i \in 1..Len(calls) : calls[i].op = op /\ calls[i].result = result

UploadFailure == HasCall("upload_results", "exhausted") \/ HasCall("upload_results", "raised")

\* The run got as far as building the scanner command: the configuration is
\* valid, the target reachable, the analysis started, the scan mode known.
ScanPrepared == command # None

-----------------------------------------------------------------------------
(* Claims *)

\* C1: once start analysis has succeeded, a run that ends with a fatal
\* error has sent a set-status request with status Error before it exits.
C1_ErrorReportedBeforeFatalExit ==
    (Terminated /\ session # NoSession /\ exitCode = 1) => Reported("Error")

\* C2: a run with a valid configuration and a reachable target, whose
\* every request got a success response and whose scanner leaves the
\* report, sends the status values Running then Finished and exits with
\* code 0.
C2_HappyPath ==
    (Terminated /\ ScanPrepared /\ all_ok /\ scanner = "report") =>
        /\ StatusValues = <<"Running", "Finished">>
        /\ exitCode = 0

\* C3: a run whose analysis started and whose scanner leaves no report
\* sends the status values Running then Error, the Error request carrying
\* the scan-failure message, attempts no upload, and exits with code 1.
C3_NoReport ==
    (Terminated /\ ScanPrepared /\ scanner = "none") =>
        /\ StatusValues = <<"Running", "Error">>
        /\ \E i \in 1..Len(StatusSent) :
             StatusSent[i].status = "Error" /\ StatusSent[i].msg = ScanErrorMsg
        /\ \A i \in 1..Len(calls) : calls[i].op # "upload_results"
        /\ exitCode = 1

\* C4: an invocation of a remote call (start analysis, set status, upload
\* results) that declares exhaustion has sent exactly MAX_RETRY_COUNT
\* requests, all answered with a non-success status; one that returns
\* success has sent exactly one request more than it got non-success
\* answers, and never more than MAX_RETRY_COUNT.
C4_RetryCount ==
    calls # <<>> =>
        /\ nsent <= MAX_RETRY_COUNT
        /\ Last(calls).result = "exhausted" =>
             (nsent = MAX_RETRY_COUNT /\ nfail = MAX_RETRY_COUNT)
        /\ Last(calls).result = "success" => nsent = nfail + 1

\* A set-status call that succeeds at its last attempt.
C4_Witness ==
    /\ calls # <<>>
    /\ Last(calls).op = "set_status"
    /\ Last(calls).result = "success"
    /\ nsent = MAX_RETRY_COUNT
    /\ nfail = MAX_RETRY_COUNT - 1

\* The invocations that set-status call i made of itself, directly or not.
Secondary(i) ==
    {j \in (i + 1)..Len(calls) : \A k \in (i + 1)..j : calls[k].depth > 0}

\* C5: a set-status call that fails (exhausted, or a request raised) is
\* followed by exactly one secondary call with status Error before the
\* process terminates.
C5_OneSecondaryCall ==
    Terminated =>
        \A i \in 1..Len(calls) :
            (/\ calls[i].op = "set_status"
             /\ calls[i].depth = 0
             /\ calls[i].result \in {"exhausted", "raised"})
                => Cardinality(Secondary(i)) = 1

\* C6: when every start-analysis attempt got a non-success response, the
\* process has terminated with exit code 1 and nothing else was invoked:
\* no set-status, no upload, no scanner command, no SARIF request.
C6_StartExhaustion ==
    HasCall("start_analysis", "exhausted") =>
        /\ Terminated
        /\ exitCode = 1
        /\ Len(calls) = 1
        /\ nsent = MAX_RETRY_COUNT
        /\ command = None
        /\ sarif_sent = <<>>

C6_Witness ==
    /\ HasCall("start_analysis", "exhausted")
    /\ nfail = MAX_RETRY_COUNT
    /\ exitCode = 1

\* C7: when start analysis exhausts its retries, the process terminates
\* with the `message` of the last error body if it has one, and with the
\* generic text only if it has none.
C7_StartMessageFromBody ==
    (Terminated /\ HasCall("start_analysis", "exhausted")) =>
        exitMsg = (IF error_response = Absent THEN StartErrorMsg ELSE error_response)

\* C8: once the upload has failed (attempts exhausted, or reading or
\* parsing the report raised) publish_results_to_soos never returns and
\* Finished is never reported: the call goes on until the process exits,
\* with code 1 and after a set-status request with status Error was sent.
C8_UploadFailure ==
    UploadFailure =>
        /\ pc # "returned"
        /\ \A i \in 1..Len(calls) : calls[i].status # "Finished"
        /\ ~Terminated => ENABLED NextCalls
        /\ Terminated => (exitCode = 1 /\ Reported("Error"))

C8_Witness ==
    /\ Terminated
    /\ HasCall("upload_results", "exhausted")
    /\ Last(calls).status = "Error"
    /\ Last(calls).result = "success"

\* C9: whatever the SARIF endpoints answer, a run that got as far as the
\* scan, whose scanner leaves the report and which reported no Error, does
\* not exit before a set-status request with status Finished was sent.
C9_FinishedWhateverSarif ==
    (Terminated /\ ScanPrepared /\ scanner = "report" /\ ~Reported("Error"))
        => Reported("Finished")

\* C10: a SARIF request (the GET of the rendering, the POST or GET to
\* GitHub) is sent only for an analysis whose configuration asked for
\* SARIF.
C10_SarifOnlyWhenRequested ==
    sarif_sent # <<>> => self.generate_sarif_report

\* The message the specification's order gives: the table entry of the
\* status when there is one, otherwise the message of the body, otherwise
\* a generic text.
GenericGithubMsg == "An unexpected error has occurred uploading the sarif report to GitHub"
table_first(code, json_response) ==
    IF code \in DOMAIN errors_dict THEN errors_dict[code]
    ELSE IF json_response.message \notin {Absent, None} THEN json_response.message
    ELSE GenericGithubMsg

\* C11: for a GitHub response with a status of 400 or more, the message
\* logged is the table entry of the status when there is one, otherwise
\* the message of the body, otherwise a generic message.
C11_GithubErrorMessage ==
    \A i \in 1..Len(sarif_sent) :
        (sarif_sent[i].op \in {"POST_github", "GET_github"} /\ sarif_sent[i].resp = FAIL)
            => sarif_sent[i].logged = table_first(sarif_sent[i].status, sarif_sent[i].body)

\* The positions in sarif_sent of the requests of operation op.
SarifIndexes(op) == {i \in 1..Len(sarif_sent) : sarif_sent[i].op = op}

\* C12: exec fetches the SARIF rendering at most API_RETRY_COUNT times and
\* stops at the first answer that is not an error; the POST to GitHub is
\* made only after such an answer, so never after API_RETRY_COUNT errors.
C12_SarifFetchBounded ==
    /\ Cardinality(SarifIndexes("GET_sarif")) <= API_RETRY_COUNT
    /\ \A i \in SarifIndexes("GET_sarif") :
         sarif_sent[i].resp = OK => \A j \in SarifIndexes("GET_sarif") : j <= i
    /\ \A j \in SarifIndexes("POST_github") :
         \E i \in SarifIndexes("GET_sarif") : i < j /\ sarif_sent[i].resp = OK

\* Every fetch was answered with an error, and exec has returned.
C12_Witness ==
    /\ pc = "returned"
    /\ Len(sarif_sent) = API_RETRY_COUNT
    /\ \A i \in 1..Len(sarif_sent) :
         sarif_sent[i].op = "GET_sarif" /\ sarif_sent[i].resp = FAIL

\* A configuration source gives a value for a key.
Supplied(v) == v # Absent /\ has_value(v)

\* The configuration lacks the target URL, the project name or the scan
\* mode.
RequiredMissing ==
    ~Supplied(cfg.targetURL) \/ ~Supplied(cfg.projectName) \/ ~Supplied(cfg.scanMode)

\* C13: whenever a remote analysis call is being or has been issued, the
\* target URL, the project name and the scan mode of the object are
\* non-empty; a run whose configuration lacks one of them issues no such
\* call and goes on until it exits with code 1.
C13_RequiredBeforeRemoteCall ==
    /\ (pc = "start_loop" \/ calls # <<>>) =>
           /\ has_value(self.target_url)
           /\ has_value(self.project_name)
           /\ has_value(self.scan_mode)
    /\ RequiredMissing =>
           /\ calls = <<>>
           /\ ~Terminated => ENABLED Next
           /\ Terminated => exitCode = 1

\* A start-analysis request is being retried.
C13_Witness ==
    /\ pc = "start_loop"
    /\ nsent = 1
    /\ nfail = 1
    /\ has_value(self.project_name)

\* C14: a run whose configuration lacks the target URL, the project name
\* or the scan mode fails in the resolution of the configuration: it never
\* gets to the availability check of the target, and exits from parse_args.
C14_MissingFailsBeforeNetwork ==
    RequiredMissing =>
        /\ pc \in {"parse_args", "exited"}
        /\ Terminated => exitMsg = ExceptionMsg

\* C15: a client identifier or API key that the configuration source does
\* not give is taken from the environment variable, and no remote call is
\* issued with an empty client identifier or API key.
C15_CredentialsResolved ==
    /\ pc = "check_site" =>
           /\ ~Supplied(cfg.clientId) => self.client_id = env.SOOS_CLIENT_ID
           /\ ~Supplied(cfg.apiKey) => self.api_key = env.SOOS_API_KEY
    /\ calls # <<>> => (has_value(self.client_id) /\ has_value(self.api_key))

\* The scan mode values the specification names: baseline, full, api, active.
NamedModes == {"baseline", "fullscan", "apiscan", "activescan"}

\* The start-analysis call has returned to run_analysis, so that the dispatch
\* of lines 764-770 is the next step or has been made.
StartReturned == calls # <<>> /\ Last(calls).result = "success"

\* C16: for a scan mode outside {baseline, full, api, active} the dispatch
\* fails with the invalid-scan-mode error: no scanner command is built or
\* executed and the run ends with a fatal error.
C16_InvalidScanMode ==
    (has_value(self.scan_mode) /\ self.scan_mode \notin NamedModes) =>
        /\ command = None
        /\ (StartReturned /\ ~Terminated) => ENABLED Dispatch
        /\ (StartReturned /\ Terminated) =>
               (exitMsg = InvalidModeMsg /\ exitCode = 1)

C16_Witness ==
    /\ Terminated
    /\ StartReturned
    /\ self.scan_mode = "bogus"
    /\ exitMsg = InvalidModeMsg
    /\ command = None

\* C17: in api scan mode without an API format, command building fails: no
\* command is produced, the scanner is never executed, the run ends in error.
C17_ApiScanNeedsFormat ==
    (self.scan_mode = "apiscan" /\ ~has_value(self.api_scan_format)) =>
        /\ command = None
        /\ (StartReturned /\ ~Terminated) => ENABLED Dispatch
        /\ (StartReturned /\ Terminated) =>
               (exitMsg = ExceptionMsg /\ exitCode = 1)

C17_Witness ==
    /\ Terminated
    /\ StartReturned
    /\ self.scan_mode = "apiscan"
    /\ self.api_scan_format = None
    /\ exitMsg = ExceptionMsg
    /\ command = None

\* publish_results_to_soos, hence the upload, has been entered.
UploadEntered == \E i \in 1..Len(calls) : calls[i].op = "upload_results"

\* C18: once the scanner command has been run, the upload step is entered if
\* and only if the expected report file exists, whatever the exit code of
\* the scanner process was.
C18_UploadIffReport ==
    (Terminated /\ ScanPrepared) => (UploadEntered <=> scanner # "none")

\* The set-status call with status Finished got a success response.
FinishedSucceeded ==
    \E i \in 1..Len(calls) :
        /\ calls[i].op = "set_status"
        /\ calls[i].status = "Finished"
        /\ calls[i].result = "success"

C20_UnavailableTarget ==
    ~env.target_available =>
        /\ calls = <<>>
        /\ sarif_sent = <<>>
        /\ command = None
        /\ pc \in {"parse_args", "check_site", "exited"}
        /\ pc = "check_site" => ENABLED CheckSite
        /\ Terminated => (exitCode = 1 /\ exitMsg \in {ExceptionMsg, NotAvailableMsg})

C20_Witness ==
    /\ Terminated
    /\ ~env.target_available
    /\ exitMsg = NotAvailableMsg
    /\ has_value(self.target_url)
    /\ calls = <<>>

-----------------------------------------------------------------------------
(* Configuration resolution and command building: parse_args (lines
   545-737), the optional keys of parse_configuration (lines 139-205) and
   the command builders (lines 208-316), from the two configuration sources
   to the argument list that is joined into the scanner command *)

\* The Python values False and True held by a configuration source.
PyFalse == "False"
PyTrue == "True"

\* The option keys of a configuration source.  Absent: the key is not in the
\* source, which only a YAML block allows.  None: the key is there without
\* a value.
Options ==
    [scanMode : {"baseline", "fullscan", "apiscan"},
     debug : {Absent, PyFalse, PyTrue},
     ajaxSpider : {Absent, None, PyTrue},
     rules : {None, "rules.conf"},
     contextFile : {None, "site.context"},
     fullScanMinutes : {None, "5"},
     apiScanFormat : {None, "openapi"},
     level : {None, "WARN"},
     authLoginURL : {None, "", "http://target/login"},
     zapOptions : {None, "-config a=b"},
     requestCookies : {None, "", "sid=1"},
     requestHeader : {None, "X-Test: 1"},
     gpat : {Absent, PyFalse, "token"}]

\* vars(args) of parse_args: argparse puts every flag in the namespace, with
\* its default when the flag is not given (debug: False, line 574;
\* ajaxSpider: None; gpat: False, line 727).
Namespaces ==
    {o \in Options : o.debug # Absent /\ o.ajaxSpider # Absent /\ o.gpat # Absent}

\* The namespace of a command line that gives the target URL alone.
DefaultNamespace ==
    [scanMode |-> "baseline", debug |-> PyFalse, ajaxSpider |-> None,
     rules |-> None, contextFile |-> None, fullScanMinutes |-> None,
     apiScanFormat |-> None, level |-> None, authLoginURL |-> None,
     zapOptions |-> None, requestCookies |-> None, requestHeader |-> None,
     gpat |-> PyFalse]

\* The namespace of a command line that gives every flag.
FlaggedNamespace ==
    [scanMode |-> "fullscan", debug |-> PyTrue, ajaxSpider |-> PyTrue,
     rules |-> "cli.conf", contextFile |-> "cli.context",
     fullScanMinutes |-> "9", apiScanFormat |-> "soap", level |-> "FAIL",
     authLoginURL |-> "http://cli/login", zapOptions |-> "-cli",
     requestCookies |-> "cli=1", requestHeader |-> "X-Cli: 1",
     gpat |-> "cli-token"]

\* A `config` block that has the scanMode key alone.
BareBlock ==
    [scanMode |-> "apiscan", debug |-> Absent, ajaxSpider |-> Absent,
     rules |-> None, contextFile |-> None, fullScanMinutes |-> None,
     apiScanFormat |-> None, level |-> None, authLoginURL |-> None,
     zapOptions |-> None, requestCookies |-> None, requestHeader |-> None,
     gpat |-> Absent]

\* A `config` block that has every key.
FullBlock ==
    [scanMode |-> "apiscan", debug |-> PyTrue, ajaxSpider |-> PyTrue,
     rules |-> "yaml.conf", contextFile |-> "yaml.context",
     fullScanMinutes |-> "7", apiScanFormat |-> "graphql", level |-> "INFO",
     authLoginURL |-> "http://yaml/login", zapOptions |-> "-yaml",
     requestCookies |-> "yaml=1", requestHeader |-> "X-Yaml: 1",
     gpat |-> "yaml-token"]

\* What a run is started with: the command line (its namespace, and whether
\* it names a config file with --configFile) and the `config` block of the
\* YAML file.  The source that is read ranges over all its values; the
\* other one gives every key a value of its own.
Sources ==
    [configFile : {TRUE}, args : {FlaggedNamespace}, config : Options]
    \cup
    [configFile : {FALSE}, args : Namespaces, config : {FullBlock}]

\* A faulty variant: a key the `config` block lacks is taken from the
\* command line.
configuration_source_merged(c) ==
    IF c.configFile
    THEN [k \in DOMAIN c.config |->
              IF c.config[k] = Absent THEN c.args[k] ELSE c.config[k]]
    ELSE c.args

\* Lines 730-737: with --configFile the `config` block of the file is
\* handed to parse_configuration, otherwise vars(args) is.
configuration_source(c) == IF c.configFile THEN c.config ELSE c.args

\* Lines 204-206: the gpat key stores its value and logs
\* "GITHUB PAT: " + value, which raises TypeError unless the value is a
\* string.
gpat_raises(configuration) == configuration.gpat = PyFalse

\* Lines 141-144: the debug and ajaxSpider keys set their field to True
\* whenever the key is in the source, whatever its value; without the key
\* the field keeps the False of the constructor (lines 56-57).
flag_stored(value) == value # Absent

\* The fields the optional keys of parse_configuration store (lines
\* 139-205) in an analysis whose constructor (lines 44-91) left them None
\* or False.
parse_configuration_options(configuration) ==
    [target_url |-> "http://target",
     scan_mode |-> configuration.scanMode,
     debug_mode |-> flag_stored(configuration.debug),
     ajax_spider_scan |-> flag_stored(configuration.ajaxSpider),
     rules_file |-> configuration.rules,
     context_file |-> configuration.contextFile,
     minutes_delay |-> configuration.fullScanMinutes,
     api_scan_format |-> configuration.apiScanFormat,
     log_level |-> configuration.level,
     auth_loginUrl |-> configuration.authLoginURL,
     zap_options |-> configuration.zapOptions,
     request_cookies |-> configuration.requestCookies,
     request_header |-> configuration.requestHeader,
     github_pat |-> IF configuration.gpat = Absent THEN None
                    ELSE configuration.gpat]

\* parse_args as run_analysis calls it (line 744): the source is chosen and
\* parsed; the TypeError of the gpat key reaches the except clause of
\* run_analysis (lines 813-814).
ParseArgsOptions ==
    /\ pc = "parse_args"
    /\ LET configuration == configuration_source(cfg) IN
         IF gpat_raises(configuration)
         THEN /\ exit_app(ExceptionMsg)
              /\ UNCHANGED self
         ELSE /\ self' = parse_configuration_options(configuration)
              /\ pc' = "configured"
              /\ UNCHANGED term
    /\ UNCHANGED <<cfg, env, all_ok, frame, loop, session, command, scanner,
                   sarif_json_response, calls, count, sarif_sent>>

\* is_true(v): v is the boolean True.
is_true(v) == v = TRUE

\* Python truth of an optional string: None and the empty string are false.
truthy(v) == v # None /\ v # ""

\* Lines 208-213 (the target URL has a value in every run that gets here).
add_target_url_option(a, args) ==
    args \o <<"ZAP_TARGET_URL_OPTION", a.target_url>>

\* Lines 215-218.
add_rules_file_option(a, args) ==
    IF has_value(a.rules_file)
    THEN args \o <<"ZAP_RULES_FILE_OPTION", a.rules_file>> ELSE args

\* Lines 220-223.
add_context_file_option(a, args) ==
    IF has_value(a.context_file)
    THEN args \o <<"ZAP_CONTEXT_FILE_OPTION", a.context_file>> ELSE args

\* Lines 225-227.
add_debug_option(a, args) ==
    IF is_true(a.debug_mode) THEN Append(args, "ZAP_DEBUG_OPTION") ELSE args

\* Lines 229-231.
add_ajax_spider_scan_option(a, args) ==
    IF is_true(a.ajax_spider_scan)
    THEN Append(args, "ZAP_AJAX_SPIDER_OPTION") ELSE args

\* Lines 233-236.
add_minutes_delay_option(a, args) ==
    IF has_value(a.minutes_delay)
    THEN args \o <<"ZAP_MINUTES_DELAY_OPTION", a.minutes_delay>> ELSE args

\* Lines 238-243; the exit_app branch is not reached, api_scan having
\* checked the format at line 310.
add_format_option(a, args) ==
    IF has_value(a.api_scan_format)
    THEN args \o <<"ZAP_FORMAT_OPTION", a.api_scan_format>> ELSE args

\* Lines 245-248.
add_log_level_option(a, args) ==
    IF has_value(a.log_level)
    THEN args \o <<"ZAP_MINIMUM_LEVEL_OPTION", a.log_level>> ELSE args

\* Lines 250-252.
add_report_file(args) ==
    args \o <<"ZAP_JSON_REPORT_OPTION", "REPORT_SCAN_RESULT_FILENAME">>

\* Lines 268-269: label="value".
add_custom_option(label, value) == <<label, value>>

\* Lines 254-266: the flag, then one argument made of the pairs of the
\* login URL, the cookies and the header that are not None.  The argument
\* is kept as the list of its pairs.
add_zap_options(a, args) ==
    LET login == IF a.auth_loginUrl # None
                 THEN <<add_custom_option("auth.loginurl", a.auth_loginUrl)>>
                 ELSE <<>>
        cookies == IF a.request_cookies # None
                   THEN <<add_custom_option("request.custom_cookies",
                                            a.request_cookies)>>
                   ELSE <<>>
        header == IF a.request_header # None
                  THEN <<add_custom_option("request.custom_header",
                                           a.request_header)>>
                  ELSE <<>>
    IN args \o <<"ZAP_OTHER_OPTIONS", login \o cookies \o header>>

\* Lines 271-273.
add_hook_option(args) ==
    args \o <<"ZAP_HOOK_OPTION", "/zap/hooks/soos_dast_hook.py">>

\* A faulty variant: the test of line 286 looks at the header as well.
zap_options_wanted_with_header(a) ==
    \/ truthy(a.auth_loginUrl)
    \/ truthy(a.zap_options)
    \/ a.request_cookies # None
    \/ a.request_header # None

\* Line 286: self.auth_loginUrl or self.zap_options or
\* self.request_cookies is not None.
zap_options_wanted(a) ==
    \/ truthy(a.auth_loginUrl)
    \/ truthy(a.zap_options)
    \/ a.request_cookies # None

\* A faulty variant: the report option is put before the hook option.
generate_command_report_first(a, args) ==
    LET a1 == add_debug_option(a, args)
        a2 == add_rules_file_option(a, a1)
        a3 == add_context_file_option(a, a2)
        a4 == add_ajax_spider_scan_option(a, a3)
        a5 == add_minutes_delay_option(a, a4)
        a6 == IF zap_options_wanted(a) THEN add_zap_options(a, a5) ELSE a5
    IN add_hook_option(add_report_file(a6))

\* __generate_command__ (lines 275-293); add_log_level_option is not among
\* the calls it makes.  The list is what " ".join(args) is given.
generate_command(a, args) ==
    LET a1 == add_debug_option(a, args)
        a2 == add_rules_file_option(a, a1)
        a3 == add_context_file_option(a, a2)
        a4 == add_ajax_spider_scan_option(a, a3)
        a5 == add_minutes_delay_option(a, a4)
        a6 == IF zap_options_wanted(a) THEN add_zap_options(a, a5) ELSE a5
    IN add_report_file(add_hook_option(a6))

\* Lines 295-300.
baseline_scan(a) ==
    generate_command(a, add_target_url_option(a, <<"PY_CMD", "BASE_LINE_SCRIPT">>))

\* Lines 302-307.
full_scan(a) ==
    generate_command(a, add_target_url_option(a, <<"PY_CMD", "FULL_SCAN_SCRIPT">>))

\* Lines 309-316, past the valid_required of line 310.
api_scan(a) ==
    generate_command(a,
        add_format_option(a,
            add_target_url_option(a, <<"PY_CMD", "API_SCAN_SCRIPT">>)))

\* command = scan_function() (line 770), the list joined into the command.
\* A mode without a scan function is fatal (lines 766-768) and api_scan
\* raises without a format (line 310).
BuildCommand ==
    /\ pc = "configured"
    /\ LET scan_function == scan_mode_map(self.scan_mode) IN
         CASE scan_function = None ->
                /\ exit_app(InvalidModeMsg)
                /\ UNCHANGED command
           [] scan_function = "api_scan" /\ api_scan_raises(self.api_scan_format) ->
                /\ exit_app(ExceptionMsg)
                /\ UNCHANGED command
           [] OTHER ->
                /\ command' = CASE scan_function = "baseline_scan" -> baseline_scan(self)
                                 [] scan_function = "full_scan" -> full_scan(self)
                                 [] scan_function = "api_scan" -> api_scan(self)
                /\ pc' = "built"
                /\ UNCHANGED term
    /\ UNCHANGED <<cfg, env, all_ok, self, frame, loop, session, scanner,
                   sarif_json_response, calls, count, sarif_sent>>

\* The fields of a fresh SOOSDASTAnalysis (lines 44-91).  A parse_args that
\* raises ends the process, so what it stored before raising is not kept.
Constructed ==
    [target_url |-> None, scan_mode |-> None, debug_mode |-> FALSE,
     ajax_spider_scan |-> FALSE, rules_file |-> None, context_file |-> None,
     minutes_delay |-> None, api_scan_format |-> None, log_level |-> None,
     auth_loginUrl |-> None, zap_options |-> None, request_cookies |-> None,
     request_header |-> None, github_pat |-> None]

\* A run started with its two sources, before parse_args.
InitCommand ==
    /\ cfg \in Sources
    /\ env = [SOOS_CLIENT_ID |-> None, SOOS_API_KEY |-> None,
              target_available |-> TRUE]
    /\ self = Constructed
    /\ pc = "parse_args"
    /\ session = NoSession
    /\ site = None
    /\ status = None
    /\ status_message = None
    /\ depth = 0
    /\ it = 0
    /\ attempt = 0
    /\ error_response = None
    /\ error_message = None
    /\ command = None
    /\ scanner = "none"
    /\ sarif_json_response = None
    /\ calls = <<>>
    /\ nsent = 0
    /\ nfail = 0
    /\ sarif_sent = <<>>
    /\ all_ok = TRUE
    /\ exitCode = None
    /\ exitMsg = None

NextCommand ==
    \/ ParseArgsOptions
    \/ BuildCommand

SpecCommand == InitCommand /\ [][NextCommand]_vars

-----------------------------------------------------------------------------
(* Claims on configuration resolution and command building *)

\* What parse_args makes of the sources c: whether it raises, and the fields
\* it stores otherwise.
Resolved(c) ==
    LET configuration == configuration_source(c) IN
      [raised |-> gpat_raises(configuration),
       fields |-> parse_configuration_options(configuration)]

\* parse_args has stored the configuration.
Configured == pc \in {"configured", "built"} \/ (Terminated /\ self # Constructed)

SpecCallsFair == SpecCalls /\ WF_vars(NextCalls)

-----------------------------------------------------------------------------
(* Further claims on the remote calls *)

\* The upload invocation of a direct call of publish_results_to_soos, while
\* its request counters are its own (no set-status call has begun).
UploadCounting == Len(calls) = 1 /\ calls[1].op = "upload_results"

\* The requests of the invocation in progress that got a success response:
\* those sent, less the error responses, less the one that raised.
OkResponses ==
    nsent - nfail -
        (IF Last(calls).requested /\ Last(calls).result = "raised" THEN 1 ELSE 0)

\* C22: upload-results returns success if and only if a PUT got a response
\* with a success status, whatever the body of that response is.
C22_UploadSuccessByStatus ==
    UploadCounting =>
        /\ calls[1].result = "success" <=> OkResponses > 0
        /\ calls[1].result = "success" => (pc = "returned" /\ ~Terminated)

C22_Witness ==
    /\ UploadCounting
    /\ calls[1].result = "success"
    /\ nsent = 2
    /\ nfail = 1
    /\ pc = "returned"

\* Invocation i is a set-status call with status st that got a success
\* response.
Acknowledged(i, st) ==
    /\ calls[i].op = "set_status"
    /\ calls[i].status = st
    /\ calls[i].result = "success"

\* C23: the steps of a run follow one another in order: start-analysis
\* success, Running acknowledged, scanner, upload success, Finished.  The
\* upload is not attempted before Running was acknowledged, Finished is not
\* sent before the upload succeeded, and a run whose analysis started and
\* whose command is built goes on to the Running step.
C23_LifecycleOrder ==
    /\ \A i \in 1..Len(calls) :
          calls[i].op = "upload_results" =>
              \E j \in 1..(i - 1) : Acknowledged(j, "Running")
    /\ \A i \in 1..Len(calls) :
          (calls[i].op = "set_status" /\ calls[i].status = "Finished") =>
              \E j \in 1..(i - 1) :
                  calls[j].op = "upload_results" /\ calls[j].result = "success"
    /\ \A i \in 2..Len(calls) : calls[i].op # "start_analysis"
    /\ (Terminated /\ StartReturned /\ ScanPrepared /\ all_ok) =>
          \E i \in 1..Len(calls) : Acknowledged(i, "Running")

\* The called operation is over: the process has exited, or the call has
\* returned to run_analysis.
CallOver ==
    \/ Terminated
    \/ pc \in {"returned", "start_returned"}
    \/ pc = "status_returned" /\ site = "direct"

\* The nested set-status calls have used up the frames the interpreter
\* allows: the next call raised RecursionError.
RecursionErrorRaised == pc = "status_raised"

\* C24: every call of a remote operation comes to an end, each request
\* returning or raising; when every PATCH raises, the set-status calls
\* nested in one another are bounded by the program (the interpreter never
\* has to stop them) and the process still exits.
C24_BoundedTermination == [](~RecursionErrorRaised) /\ <>CallOver

-----------------------------------------------------------------------------
(* Claims on the scanner command *)

\* The script a scan mode runs.
ModeScript ==
    [baseline |-> "BASE_LINE_SCRIPT", fullscan |-> "FULL_SCAN_SCRIPT",
     apiscan |-> "API_SCAN_SCRIPT"]

\* The flags of the optional and closing parts, in the order the
\* specification gives.
StatedOrder ==
    <<"ZAP_DEBUG_OPTION", "ZAP_RULES_FILE_OPTION", "ZAP_CONTEXT_FILE_OPTION",
      "ZAP_AJAX_SPIDER_OPTION", "ZAP_MINUTES_DELAY_OPTION", "ZAP_FORMAT_OPTION",
      "ZAP_MINIMUM_LEVEL_OPTION", "ZAP_OTHER_OPTIONS", "ZAP_HOOK_OPTION",
      "ZAP_JSON_REPORT_OPTION">>

\* The same flags with the format flag first.
FormatFirstOrder ==
    <<"ZAP_FORMAT_OPTION", "ZAP_DEBUG_OPTION", "ZAP_RULES_FILE_OPTION",
      "ZAP_CONTEXT_FILE_OPTION", "ZAP_AJAX_SPIDER_OPTION",
      "ZAP_MINUTES_DELAY_OPTION", "ZAP_MINIMUM_LEVEL_OPTION",
      "ZAP_OTHER_OPTIONS", "ZAP_HOOK_OPTION", "ZAP_JSON_REPORT_OPTION">>

\* The positions of the argument list cmd that hold the flag f.
FlagAt(cmd, f) == {i \in 1..Len(cmd) : cmd[i] = f}

\* The place of the argument t among the flags of order, 0 when it is none
\* of them.
Rank(t, order) ==
    IF \E k \in 1..Len(order) : t = order[k]
    THEN CHOOSE k \in 1..Len(order) : t = order[k]
    ELSE 0

\* The flags fs go up in order.
Increasing(fs, order) ==
    \A i \in 1..(Len(fs) - 1) : Rank(fs[i], order) < Rank(fs[i + 1], order)

\* The flags of order that cmd has are in it once each and in that order.
InOrder(cmd, order) ==
    Increasing(SelectSeq(cmd, LAMBDA t : Rank(t, order) > 0), order)

\* The flag f is in cmd exactly when wanted, and then followed by value.
FlagWithValue(cmd, f, wanted, value) ==
    /\ (FlagAt(cmd, f) # {}) <=> wanted
    /\ \A i \in FlagAt(cmd, f) : i < Len(cmd) /\ cmd[i + 1] = value

\* The command begins with the interpreter and the script of the mode and
\* ends with the report flag and the fixed file name; the value of a flag
\* comes right after it.
Framed(cmd, a) ==
    /\ Len(cmd) >= 4
    /\ cmd[1] = "PY_CMD"
    /\ cmd[2] = ModeScript[a.scan_mode]
    /\ cmd[Len(cmd) - 1] = "ZAP_JSON_REPORT_OPTION"
    /\ cmd[Len(cmd)] = "REPORT_SCAN_RESULT_FILENAME"
    /\ FlagWithValue(cmd, "ZAP_RULES_FILE_OPTION", has_value(a.rules_file), a.rules_file)
    /\ FlagWithValue(cmd, "ZAP_CONTEXT_FILE_OPTION", has_value(a.context_file),
                     a.context_file)
    /\ FlagWithValue(cmd, "ZAP_MINUTES_DELAY_OPTION", has_value(a.minutes_delay),
                     a.minutes_delay)
    /\ FlagWithValue(cmd, "ZAP_FORMAT_OPTION", a.scan_mode = "apiscan",
                     a.api_scan_format)
    /\ FlagAt(cmd, "ZAP_HOOK_OPTION") # {}

\* C25 as stated: the built command starts with the interpreter and the
\* script of its mode, and its parts come in the order debug, rules file,
\* context file, ajax spider, minutes delay, format (api mode), minimum
\* level, auxiliary options, hook script, report output last.
C25_CommandOrder ==
    pc = "built" => (Framed(command, self) /\ InOrder(command, StatedOrder))

\* The target URL flag and the target URL come right after the script.
TargetThird(cmd, a) ==
    cmd[3] = "ZAP_TARGET_URL_OPTION" /\ cmd[4] = a.target_url

\* C25 amended: the same, with the target URL flag and the target URL after
\* the script, and with the format flag and its value (api mode) before the
\* debug flag instead of after the minutes delay.
C25_CommandOrderFormatFirst ==
    pc = "built" =>
        /\ Framed(command, self)
        /\ TargetThird(command, self)
        /\ InOrder(command, FormatFirstOrder)

C25_Witness ==
    /\ pc = "built"
    /\ self.scan_mode = "apiscan"
    /\ \A k \in 1..Len(FormatFirstOrder) :
          FormatFirstOrder[k] # "ZAP_MINIMUM_LEVEL_OPTION" =>
              FlagAt(command, FormatFirstOrder[k]) # {}

\* C26: when the configuration has a logging level, the built command has
\* the minimum-level flag followed by that level.
C26_LogLevelInCommand ==
    (pc = "built" /\ has_value(self.log_level)) =>
        \E i \in 1..(Len(command) - 1) :
            /\ command[i] = "ZAP_MINIMUM_LEVEL_OPTION"
            /\ command[i + 1] = self.log_level

\* The pairs of the auxiliary-options argument of cmd (none when cmd has no
\* auxiliary-options flag).
AuxiliaryPairs(cmd) ==
    UNION {{cmd[i + 1][k] : k \in 1..Len(cmd[i + 1])} :
               i \in FlagAt(cmd, "ZAP_OTHER_OPTIONS")}

\* The pair of label for value v when wanted.
PairIf(wanted, label, v) == IF wanted THEN {<<label, v>>} ELSE {}

\* C27 as stated, a value being present when it is neither None nor empty:
\* the auxiliary-options block is in the command if and only if the login
\* URL, the free-form options or the cookies are present, and it holds the
\* pairs of exactly those of login URL, cookies and header that are present.
C27_AuxiliaryOptions ==
    pc = "built" =>
        /\ (FlagAt(command, "ZAP_OTHER_OPTIONS") # {}) <=>
               \/ has_value(self.auth_loginUrl)
               \/ has_value(self.zap_options)
               \/ has_value(self.request_cookies)
        /\ FlagAt(command, "ZAP_OTHER_OPTIONS") # {} =>
               AuxiliaryPairs(command) =
                   PairIf(has_value(self.auth_loginUrl), "auth.loginurl",
                          self.auth_loginUrl)
                   \cup PairIf(has_value(self.request_cookies),
                               "request.custom_cookies", self.request_cookies)
                   \cup PairIf(has_value(self.request_header),
                               "request.custom_header", self.request_header)

\* C27 amended: the block is in the command if and only if the login URL is
\* not empty, or the free-form options are not empty, or the cookies are
\* given (empty or not); it holds the pairs of exactly those of login URL,
\* cookies and header that are given (empty or not); the header alone does
\* not bring the block.
C27_AuxiliaryOptionsGiven ==
    pc = "built" =>
        /\ (FlagAt(command, "ZAP_OTHER_OPTIONS") # {}) <=>
               \/ has_value(self.auth_loginUrl)
               \/ has_value(self.zap_options)
               \/ self.request_cookies # None
        /\ FlagAt(command, "ZAP_OTHER_OPTIONS") # {} =>
               AuxiliaryPairs(command) =
                   PairIf(self.auth_loginUrl # None, "auth.loginurl",
                          self.auth_loginUrl)
                   \cup PairIf(self.request_cookies # None,
                               "request.custom_cookies", self.request_cookies)
                   \cup PairIf(self.request_header # None,
                               "request.custom_header", self.request_header)

C27_Witness ==
    /\ pc = "built"
    /\ self.auth_loginUrl = ""
    /\ self.zap_options # None
    /\ self.request_cookies = None
    /\ self.request_header # None
    /\ Cardinality(AuxiliaryPairs(command)) = 2

-----------------------------------------------------------------------------
(* Claims on the analysis session and the terminal status *)

\* run_analysis holds the response of a started analysis.
SessionCreated == session # NoSession

\* C28: the session is created once, from the first success response to
\* start-analysis, and is not changed afterwards; every later invocation
\* (set-status, upload) addresses the identifiers of that session; no
\* start-analysis request is sent once one has succeeded.
C28_SessionOnce ==
    /\ [](SessionCreated =>
             /\ calls # <<>>
             /\ calls[1].op = "start_analysis"
             /\ calls[1].result = "success"
             /\ \A i \in 2..Len(calls) :
                   calls[i].op # "start_analysis" /\ calls[i].sess = session)
    /\ [][SessionCreated =>
             /\ session' = session
             /\ calls'[1] = calls[1]
             /\ Len(calls') = 1 => nsent' = nsent]_vars

C28_Witness ==
    /\ SessionCreated
    /\ Terminated
    /\ session \in Sessions
    /\ nsent = 2
    /\ calls[1].result = "success"

\* Invocation i is a set-status call with a terminal status.
TerminalCall(i) ==
    calls[i].op = "set_status" /\ calls[i].status \in {"Error", "Finished"}

\* C29: at most one terminal status (Finished or Error) is acknowledged:
\* once a set-status request with status Error or Finished got a success
\* response no further set-status call is made, and Finished is not sent
\* after Error was sent.
C29_OneTerminalStatus ==
    /\ Cardinality({i \in 1..Len(calls) :
                       TerminalCall(i) /\ calls[i].result = "success"}) <= 1
    /\ \A i \in 1..Len(calls) :
          (TerminalCall(i) /\ calls[i].result = "success") =>
              \A j \in (i + 1)..Len(calls) : calls[j].op # "set_status"
    /\ \A i \in 1..Len(calls) :
          (calls[i].op = "set_status" /\ calls[i].status = "Error"
                                     /\ calls[i].requested) =>
              \A j \in (i + 1)..Len(calls) :
                  ~(calls[j].op = "set_status" /\ calls[j].status = "Finished")

C29_Witness ==
    /\ Terminated
    /\ Len(calls) = 2
    /\ calls[1].op = "upload_results"
    /\ calls[1].result = "exhausted"
    /\ TerminalCall(2)
    /\ calls[2].result = "success"

\* C30: the debug flag and the ajax-spider flag are in the built command if
\* and only if the source that was read gives the value true for debug,
\* respectively ajaxSpider; a key with a false or empty value gives a
\* command without the flag.
C30_FlagsFollowValues ==
    pc = "built" =>
        LET configuration == IF cfg.configFile THEN cfg.config ELSE cfg.args IN
          /\ (FlagAt(command, "ZAP_DEBUG_OPTION") # {}) <=>
                 configuration.debug = PyTrue
          /\ (FlagAt(command, "ZAP_AJAX_SPIDER_OPTION") # {}) <=>
                 configuration.ajaxSpider = PyTrue

====
